---- MODULE Spec2Model ----
\* Model of the podcast generation pipeline, PodcastFlow, of
\* src/edumuse/src/edumuse/flows/podcast_flow.py: process() and the helpers it
\* calls, with the chat service, the speech service, the muxing utility, the
\* duration probe and the filesystem as nondeterministic collaborators.
EXTENDS Integers, Sequences, FiniteSets, TLC

\* ---------------------------------------------------------------- bounds
\* The wall clock counts whole seconds, as strftime("%Y%m%d_%H%M%S") shows
\* them, and takes the values 0..MaxClock.
MaxClock == 1
\* Longest array the chat service returns for the dialogue request.
MaxScript == 2
\* Number of rare events in one behaviour: a filesystem operation that
\* fails, or a speech reply that holds zero bytes.
MaxFaults == 1

\* ---------------------------------------------------------------- strings
\* A Python str is a sequence of one-character strings.
Rep(c, n) == [k \in 1..n |-> c]

Whitespace == {" ", "\n"}

\* s[:n]
Take(s, n) == SubSeq(s, 1, IF Len(s) < n THEN Len(s) ELSE n)

\* str.strip()
Strip(s) ==
    LET keep == {k \in 1..Len(s) : s[k] \notin Whitespace}
    IN  IF keep = {} THEN <<>>
        ELSE SubSeq(s, CHOOSE k \in keep : \A j \in keep : k <= j,
                       CHOOSE k \in keep : \A j \in keep : j <= k)

\* str.split('\n'): the pieces between newlines, always at least one
SplitLines(s) ==
    LET nl == {k \in 1..Len(s) : s[k] = "\n"}
        cuts == nl \cup {0, Len(s) + 1}
        NextCut(k) == CHOOSE c \in cuts : c > k /\ \A d \in cuts : d > k => c <= d
        Start(n) == CHOOSE k \in cuts : Cardinality({c \in cuts : c < k}) = n - 1
    IN  [n \in 1..(Cardinality(nl) + 1) |->
            SubSeq(s, Start(n) + 1, NextCut(Start(n)) - 1)]

\* str.replace(' ', '_')
ReplaceSpaces(s) == [k \in 1..Len(s) |-> IF s[k] = " " THEN "_" ELSE s[k]]

\* Python's None where a str is expected; no str equals it.
None == <<"<None>">>

\* `not x` for x a str or None
Falsy(x) == x = None \/ x = <<>>

\* ---------------------------------------------------------------- constants
HOST_VOICE_ID == "JBFqnCBsd6RMkjVDRZzb"
GUEST_VOICE_ID == "EXAVITQu4vr4xnSDxMaL"

\* context.get('topic', 'Educational Topic')
DefaultTopic ==
    <<"E", "d", "u", "c", "a", "t", "i", "o", "n", "a", "l", " ",
      "T", "o", "p", "i", "c">>

\* ---------------------------------------------------------------- inputs
\* The concurrent invocations of process() the model follows.
AllRuns == {1, 2}
\* Spec follows one invocation.
SeqRuns == {1}

\* A request is what the caller hands to process(): sources and context.
\* A source is {content, title}; a context holds a topic or none.
Src(c, t) == [content |-> c, title |-> t]

Ctx(t) == [topic |-> t]

Requests ==
    { [sources |-> << Src(<<"x", "x", "x", "x", ".">>, <<>>),
                      Src(<<"\n", "I", "n", "t", "r", "o">>, <<"T">>) >>,
       context |-> Ctx(<<"a", " ", "b">>)],
      [sources |-> << Src(Rep("x", 101), None), Src(Rep("x", 101), None) >>,
       context |-> Ctx(None)] }

\* Requests that exercise content aggregation and title resolution: one or
\* two sources out of TitleSources, with a topic, an empty topic or none.
Chars3 == <<"a", "b", "c">>
Chars4 == <<"a", "b", "c", "d">>

TitleSources ==
    { \* line 1 has 3 characters, line 2 has 4 once stripped
      Src(Chars3 \o <<"\n", " ">> \o Chars4 \o <<" ", "\n", "x", "x">>, <<>>),
      \* line 1 has 100 characters, line 2 has 99
      Src(Rep("y", 100) \o <<"\n">> \o Rep("z", 99), None),
      \* line 1 ends in a colon, lines 2-5 are empty, line 6 would do
      Src(<<"I", "n", "t", "r", "o", ":", "\n", "\n", "\n", "\n", "\n">> \o Chars4, <<>>),
      \* a source with a title
      Src(<<"x", "x", "x", "x", ".">>, <<"T">>),
      \* no content, a title of one blank
      Src(<<>>, <<" ">>),
      \* one line ending in a question mark
      Src(<<"w", "x", "y", "z", "?">>, <<>>) }

TitleTopics == {<<"a", " ", "b">>, <<>>, None}

TitleRequests ==
    { [sources |-> srcs, context |-> Ctx(t)] :
        srcs \in [1..1 -> TitleSources] \cup [1..2 -> TitleSources],
        t \in TitleTopics }

NoRequest == [sources |-> <<>>, context |-> Ctx(None)]

\* content[:200] echoed by the fallback script
FallbackEcho == 200

\* ---------------------------------------------------------------- title
\* _extract_title_from_content scans the first TitleScanLines lines for one
\* whose stripped length lies strictly between TitleMinLen and TitleMaxLen.
TitleScanLines == 5
TitleMinLen == 3
TitleMaxLen == 100
TerminalPunctuation == {".", ":", ";", ",", "?", "!"}

Min(a, b) == IF a < b THEN a ELSE b

\* Mutant of LooksLikeTitle: the length bounds are inclusive.
LooksLikeTitle_Inclusive(line) ==
    /\ TitleMinLen <= Len(line)
    /\ Len(line) <= TitleMaxLen
    /\ line[Len(line)] \notin TerminalPunctuation

\* The `if` of the heuristic loop, for one line.
LooksLikeTitle(line) ==
    /\ TitleMinLen < Len(line)
    /\ Len(line) < TitleMaxLen
    /\ line[Len(line)] \notin TerminalPunctuation

\* The heuristic loop: the first stripped line that looks like a title, or
\* None when the loop falls through to the chat call.
HeuristicTitle(c) ==
    LET lines == SplitLines(c)
        n == Min(TitleScanLines, Len(lines))
        hits == {k \in 1..n : LooksLikeTitle(Strip(lines[k]))}
    IN  IF hits = {} THEN None
        ELSE Strip(lines[CHOOSE k \in hits : \A j \in hits : k <= j])

\* What the chat service does on the title request: it raises, or answers
\* with a text.
TitleReplies ==
    { [raises |-> TRUE, text |-> <<>>],
      [raises |-> FALSE, text |-> <<" ", "T", "2", "\n">>],
      [raises |-> FALSE, text |-> <<" ">>] }

\* The try/except around the title chat call.
TitleFromChat(reply) == IF reply.raises THEN None ELSE Strip(reply.text)

\* content accumulated by the loop over sources
RECURSIVE ConcatContent(_)
ConcatContent(srcs) ==
    IF srcs = <<>> THEN <<>>
    ELSE Head(srcs).content \o ConcatContent(Tail(srcs))

\* document_title as the loop over sources leaves it: the first truthy title
RECURSIVE FirstSourceTitle(_)
FirstSourceTitle(srcs) ==
    IF srcs = <<>> THEN None
    ELSE IF ~Falsy(Head(srcs).title) THEN Head(srcs).title
    ELSE FirstSourceTitle(Tail(srcs))

\* context.get('topic', 'Educational Topic')
ContextTopic(ctx) == IF ctx.topic = None THEN DefaultTopic ELSE ctx.topic

\* ---------------------------------------------------------------- dialogue
\* A value json.loads can return. A list or dict or str has a len() and
\* iterates over items; an item of a list is a dict holding some of the keys
\* speaker / text / voice_id (a field is <<>> when the key is missing), or
\* something that is not a dict.
Item(sp, tx, v) == [isdict |-> TRUE, speaker |-> sp, text |-> tx, voice_id |-> v]

NonDictItem == [isdict |-> FALSE, speaker |-> <<>>, text |-> <<>>, voice_id |-> <<>>]

Json(k, its) == [kind |-> k, items |-> its]

\* Texts are sequences of pieces <<literal, variable part, literal>>.
Text(a, v, b) == <<a, v, b>>

ChatItems ==
    { Item(<<"Host">>, <<Text("Hello", <<>>, "")>>, <<HOST_VOICE_ID>>),
      Item(<<"Guest">>, <<Text("Hm", <<>>, "")>>, <<>>),
      Item(<<"Host">>, <<>>, <<HOST_VOICE_ID>>) }

ChatLists ==
    UNION { [1..n -> ChatItems] : n \in 0..MaxScript }

\* The fallback script of _generate_podcast_dialogue.
FallbackDialogue(c, t) ==
    Json("list",
         << Item(<<"Host">>,
                 <<Text("Welcome to this educational podcast about ", t, ".")>>,
                 <<HOST_VOICE_ID>>),
            Item(<<"Guest">>,
                 <<Text("Thank you for having me. I'm excited to discuss this topic.", <<>>, "")>>,
                 <<GUEST_VOICE_ID>>),
            Item(<<"Host">>,
                 <<Text("Let's start with the basics. Could you give our listeners an overview?", <<>>, "")>>,
                 <<HOST_VOICE_ID>>),
            Item(<<"Guest">>,
                 <<Text("Certainly. ", Take(c, FallbackEcho), "...")>>,
                 <<GUEST_VOICE_ID>>),
            Item(<<"Host">>,
                 <<Text("That's fascinating. What are some practical applications of this knowledge?", <<>>, "")>>,
                 <<HOST_VOICE_ID>>),
            Item(<<"Guest">>,
                 <<Text("There are several applications worth discussing...", <<>>, "")>>,
                 <<GUEST_VOICE_ID>>) >>)

\* A chat completion's text is a sequence of tokens: a run of backticks, a
\* run of whitespace, the word json, one JSON document, or other text.
Tok(t, v) == [t |-> t, v |-> v]

NoJson == Json("none", <<>>)

Fence == Tok("fence", NoJson)
Ws == Tok("ws", NoJson)
JsonTag == Tok("tag", NoJson)
Junk == Tok("junk", NoJson)
Doc(v) == Tok("json", v)

RECURSIVE DropLeading(_, _)
DropLeading(toks, kind) ==
    IF toks # <<>> /\ Head(toks).t = kind THEN DropLeading(Tail(toks), kind)
    ELSE toks

RECURSIVE DropTrailing(_, _)
DropTrailing(toks, kind) ==
    IF toks # <<>> /\ toks[Len(toks)].t = kind
    THEN DropTrailing(SubSeq(toks, 1, Len(toks) - 1), kind)
    ELSE toks

\* raw_output.strip() and raw_output.strip("`")
StripToks(toks, kind) == DropTrailing(DropLeading(toks, kind), kind)

\* Lines 206-214: strip, then remove the code fence and the json tag.
Unwrap(toks) ==
    LET raw == StripToks(toks, "ws")
    IN  IF raw # <<>> /\ Head(raw).t = "fence"
        THEN LET inner == StripToks(StripToks(raw, "fence"), "ws")
             IN  IF inner # <<>> /\ Head(inner).t = "tag"
                 THEN StripToks(Tail(inner), "ws")
                 ELSE inner
        ELSE raw

\* json.loads: the text must be one JSON document (whitespace around it is
\* allowed); anything else raises.
JsonLoads(toks) ==
    LET body == StripToks(toks, "ws")
    IN  IF Len(body) = 1 /\ body[1].t = "json"
        THEN [raises |-> FALSE, value |-> body[1].v]
        ELSE [raises |-> TRUE, value |-> NoJson]

\* len(x) raises TypeError for a number, a boolean or null.
HasLen(v) == v.kind \in {"list", "dict", "str"}

\* What the chat service does on the dialogue request: it raises, or
\* answers with a message whose content is None or a text.
ChatReply(raises, isnone, toks) == [raises |-> raises, isnone |-> isnone, toks |-> toks]

SampleList == CHOOSE l \in ChatLists : Len(l) = MaxScript /\ \A k \in 1..Len(l) : l[k].voice_id # <<>> /\ l[k].text # <<>>

DialogueReplies ==
    { ChatReply(TRUE, FALSE, <<>>),
      ChatReply(FALSE, TRUE, <<>>),
      ChatReply(FALSE, FALSE, <<>>),
      ChatReply(FALSE, FALSE, <<Junk>>),
      ChatReply(FALSE, FALSE, <<JsonTag, Ws, Doc(Json("list", SampleList))>>),
      ChatReply(FALSE, FALSE, <<Fence, JsonTag, Ws, Doc(Json("list", SampleList)), Ws, Fence, Ws>>),
      ChatReply(FALSE, FALSE, <<Fence, Doc(Json("list", SampleList)), Junk, Fence>>),
      ChatReply(FALSE, FALSE, <<Doc(Json("num", <<>>))>>),
      ChatReply(FALSE, FALSE, <<Doc(Json("dict", <<NonDictItem>>))>>),
      ChatReply(FALSE, FALSE, <<Doc(Json("dict", <<>>))>>),
      ChatReply(FALSE, FALSE, <<Doc(Json("str", <<NonDictItem, NonDictItem>>))>>) }
    \cup { ChatReply(FALSE, FALSE, <<Ws, Doc(Json("list", l))>>) : l \in ChatLists }

\* Lines 204-231 of _generate_podcast_dialogue: the value returned for a
\* reply that did not raise.
ParseReply(reply, c, t) ==
    IF reply.isnone THEN FallbackDialogue(c, t)
    ELSE LET r == JsonLoads(Unwrap(reply.toks))
         IN  IF r.raises \/ ~HasLen(r.value) THEN FallbackDialogue(c, t)
             ELSE r.value

\* ---------------------------------------------------------------- files
\* f"{i:03d}" for 0 <= i < 1000
Pad3(n) == <<n \div 100, (n \div 10) % 10, n % 10>>

UploadsDir == <<"uploads">>

\* os.path.join(uploads_dir, f"temp_segments_{timestamp}")
TempDirOf(ts) == <<"uploads", "temp_segments_", ts>>

\* Mutant of SegmentFileOf: files numbered by how many segments exist so
\* far would start at 1 for a counter incremented first; here, one-based.
SegmentFileOf_OneBased(ts, n) ==
    <<"uploads", "temp_segments_", ts, "segment_", Pad3(n + 1)>>

\* os.path.join(temp_dir, f"segment_{i:03d}.mp3")
SegmentFileOf(ts, n) == <<"uploads", "temp_segments_", ts, "segment_", Pad3(n)>>

\* os.path.join(temp_dir, "file_list.txt")
FileListOf(ts) == <<"uploads", "temp_segments_", ts, "file_list.txt">>

\* os.path.join(uploads_dir, f"podcast_{topic.replace(' ', '_')}_{timestamp}.mp3")
OutputPathOf(t, ts) == <<"uploads", "podcast_", ReplaceSpaces(t), "_", ts, ".mp3">>

\* The filesystem is a set of entries, one per existing path: who wrote it
\* last and what it holds (a directory holds <<>>).
Entry(path, by, data) == [path |-> path, by |-> by, data |-> data]

Paths(f) == {e.path : e \in f}

\* Creating or truncating-and-writing a file; makedirs(exist_ok=True).
WriteFile(f, path, by, data) ==
    {e \in f : e.path # path} \cup {Entry(path, by, data)}

MakeDir(f, path, by) ==
    IF path \in Paths(f) THEN f ELSE f \cup {Entry(path, by, <<>>)}

RemovePath(f, path) == {e \in f : e.path # path}

DataAt(f, path) == (CHOOSE e \in f : e.path = path).data

\* The entries inside a temporary directory.
InsideTempDir(f, ts) ==
    {e \in f : Len(e.path) > 3 /\ SubSeq(e.path, 1, 3) = TempDirOf(ts)}

Range(s) == {s[k] : k \in 1..Len(s)}

\* ---------------------------------------------------------------- results
\* _format_dialogue_as_text: a header, then one "**speaker**: text" block per
\* line; it raises when a line has no speaker or no text.
FormatRaises(d) ==
    \E k \in 1..Len(d.items) :
        \/ ~d.items[k].isdict
        \/ d.items[k].speaker = <<>>
        \/ d.items[k].text = <<>>

FormatDialogueAsText(d) ==
    [header |-> "# Podcast Transcript",
     blocks |-> [k \in 1..Len(d.items) |->
                    <<d.items[k].speaker[1], d.items[k].text[1]>>]]

Placeholder == [header |-> "Failed to generate podcast", blocks |-> <<>>]

\* datetime.now().isoformat(): the record holds the time of its making,
\* whose value the model does not follow.
GeneratedAt == "datetime.now().isoformat()"

\* Mutant of AudioFailure: the placeholder instead of the transcript.
AudioFailure_Placeholder(d) ==
    [flow_type |-> "podcast",
     sources_found |-> [header |-> "Failed to generate podcast", blocks |-> <<>>],
     error |-> "Failed to generate audio",
     dialogue_segments |-> Len(d.items),
     metadata |-> [format |-> "mp3",
                   voices_used |-> <<HOST_VOICE_ID, GUEST_VOICE_ID>>,
                   generated_at |-> GeneratedAt]]

\* Lines 94-104
AudioFailure(d) ==
    [flow_type |-> "podcast",
     sources_found |-> FormatDialogueAsText(d),
     error |-> "Failed to generate audio",
     dialogue_segments |-> Len(d.items),
     metadata |-> [format |-> "mp3",
                   voices_used |-> <<HOST_VOICE_ID, GUEST_VOICE_ID>>,
                   generated_at |-> GeneratedAt]]

\* Lines 109-120
Success(d, path, duration) ==
    [flow_type |-> "podcast",
     sources_found |-> FormatDialogueAsText(d),
     audio_output |-> path,
     dialogue_segments |-> Len(d.items),
     metadata |-> [duration_seconds |-> duration,
                   format |-> "mp3",
                   voices_used |-> <<HOST_VOICE_ID, GUEST_VOICE_ID>>,
                   generated_at |-> GeneratedAt]]

\* Mutant of ExceptResult: the error record also holds an audio_output key.
ExceptResult_WithAudioOutput(exc) ==
    [flow_type |-> "podcast",
     error |-> <<"Error in podcast generation: ", exc>>,
     audio_output |-> <<>>,
     sources_found |-> [header |-> "Failed to generate podcast", blocks |-> <<>>],
     metadata |-> [error_details |-> exc, generated_at |-> GeneratedAt]]

\* Lines 121-135: the except clause of process.
ExceptResult(exc) ==
    [flow_type |-> "podcast",
     error |-> <<"Error in podcast generation: ", exc>>,
     sources_found |-> Placeholder,
     metadata |-> [error_details |-> exc, generated_at |-> GeneratedAt]]

NoResult == [pending |-> TRUE]

IsSuccess(r) == "audio_output" \in DOMAIN r

IsFailure(r) == "error" \in DOMAIN r

\* _get_audio_duration: what ffprobe does, and the float parsed from it.
ProbeReplies ==
    { [raises |-> TRUE, exit |-> 1, isfloat |-> FALSE, value |-> 0],
      [raises |-> FALSE, exit |-> 1, isfloat |-> FALSE, value |-> 0],
      [raises |-> FALSE, exit |-> 0, isfloat |-> FALSE, value |-> 0],
      [raises |-> FALSE, exit |-> 0, isfloat |-> TRUE, value |-> 7] }

\* Mutant of GetAudioDuration: no except clause around float(); an
\* unparsable output shows as -1.
GetAudioDuration_NoExcept(reply) ==
    IF reply.raises \/ reply.exit # 0 THEN 0
    ELSE IF ~reply.isfloat THEN -1 ELSE reply.value

GetAudioDuration(reply) ==
    IF reply.raises \/ reply.exit # 0 \/ ~reply.isfloat THEN 0 ELSE reply.value

\* ---------------------------------------------------------------- state
VARIABLES
    now,            \* the wall clock, in seconds
    fs,             \* the filesystem under the uploads directory
    fs_faults,      \* filesystem operations that have failed so far
    empty_replies,  \* speech replies that held zero bytes so far
    pc,             \* per invocation: where process() is
    request,        \* per invocation: sources and context
    content,        \* per invocation: local of process
    document_title, \* per invocation: local of process
    dialogue,       \* per invocation: local of process
    timestamp,      \* per invocation: local of _generate_audio
    i,              \* per invocation: index of the synthesis loop
    segment_files,  \* per invocation: local of _generate_audio
    removed,        \* per invocation: segment files removed by the cleanup
    audio_path,     \* per invocation: what _generate_audio returned
    result,         \* per invocation: what process returned
    calls           \* per invocation: the external calls made, in order

vars ==
    <<now, fs, fs_faults, empty_replies, pc, request, content, document_title, dialogue,
      timestamp, i, segment_files, removed, audio_path, result, calls>>

locals ==
    <<request, content, document_title, dialogue, timestamp, i,
      segment_files, removed, audio_path, result>>

Init ==
    /\ now = 0
    /\ fs = {}
    /\ fs_faults = 0
    /\ empty_replies = 0
    /\ pc = [p \in AllRuns |-> "Idle"]
    /\ request = [p \in AllRuns |-> NoRequest]
    /\ content = [p \in AllRuns |-> <<>>]
    /\ document_title = [p \in AllRuns |-> None]
    /\ dialogue = [p \in AllRuns |-> Json("list", <<>>)]
    /\ timestamp = [p \in AllRuns |-> 0]
    /\ i = [p \in AllRuns |-> 0]
    /\ segment_files = [p \in AllRuns |-> <<>>]
    /\ removed = [p \in AllRuns |-> 0]
    /\ audio_path = [p \in AllRuns |-> <<>>]
    /\ result = [p \in AllRuns |-> NoResult]
    /\ calls = [p \in AllRuns |-> <<>>]

Topic(p) == ContextTopic(request[p].context)

\* An external call, as the log keeps it.
CallRec(op, arg, ok) == [op |-> op, arg |-> arg, ok |-> ok]

Log(p, rec) == calls' = [calls EXCEPT ![p] = Append(@, rec)]

\* A filesystem operation either works or (while fs_faults remain) fails.
FaultsLeft == fs_faults + empty_replies < MaxFaults

FaultChoices == IF FaultsLeft THEN BOOLEAN ELSE {FALSE}

Fault(b) == fs_faults' = IF b THEN fs_faults + 1 ELSE fs_faults

\* The clock moves on. Only BeginAudio reads its value (line 237), so it is
\* enough to let it advance when some invocation is about to take that step.
Tick ==
    /\ now < MaxClock
    /\ \E p \in AllRuns : pc[p] = "ScriptWritten"
    /\ now' = now + 1
    /\ UNCHANGED <<fs, fs_faults, empty_replies, pc, locals, calls>>

\* The caller invokes process(sources, context).
Call(p) ==
    /\ pc[p] = "Idle"
    /\ \E r \in Requests : request' = [request EXCEPT ![p] = r]
    /\ pc' = [pc EXCEPT ![p] = "Start"]
    /\ UNCHANGED <<now, fs, fs_faults, empty_replies, content, document_title,
                   dialogue, timestamp, i, segment_files, removed, audio_path,
                   result, calls>>

\* Mutant of Raise: no except clause, the exception leaves process.
Raise_Escapes(p, exc) ==
    /\ result' = [result EXCEPT ![p] = [raised |-> exc]]
    /\ pc' = [pc EXCEPT ![p] = "Failed"]

\* process caught an exception: lines 121-135.
Raise(p, exc) ==
    /\ result' = [result EXCEPT ![p] = ExceptResult(exc)]
    /\ pc' = [pc EXCEPT ![p] = "Failed"]

\* What the loop over sources and the heuristic loop compute for a request;
\* they read nothing but the sources.
Aggregated ==
    [r \in Requests \cup TitleRequests |->
        [content |-> ConcatContent(r.sources),
         fromSources |-> FirstSourceTitle(r.sources),
         heuristic |-> HeuristicTitle(ConcatContent(r.sources))]]

\* Mutant of Aggregate: the title chat call has no try/except, so that its
\* exception reaches the except clause of process.
Aggregate_TitleCallUnguarded(p) ==
    /\ pc[p] = "Start"
    /\ LET c == Aggregated[request[p]].content
           fromSources == Aggregated[request[p]].fromSources
           heuristic == Aggregated[request[p]].heuristic
       IN  /\ content' = [content EXCEPT ![p] = c]
           /\ IF ~Falsy(fromSources)
              THEN /\ document_title' = [document_title EXCEPT ![p] = fromSources]
                   /\ pc' = [pc EXCEPT ![p] = "ContentAggregated"]
                   /\ UNCHANGED <<calls, result>>
              ELSE IF heuristic # None
              THEN /\ document_title' = [document_title EXCEPT ![p] = heuristic]
                   /\ pc' = [pc EXCEPT ![p] = "ContentAggregated"]
                   /\ UNCHANGED <<calls, result>>
              ELSE \E reply \in TitleReplies :
                      /\ Log(p, CallRec("chat_title", reply.text, ~reply.raises))
                      /\ IF reply.raises
                         THEN /\ Raise(p, "chat")
                              /\ UNCHANGED document_title
                         ELSE /\ document_title' =
                                    [document_title EXCEPT
                                        ![p] = IF Falsy(Strip(reply.text))
                                               THEN Topic(p)
                                               ELSE Strip(reply.text)]
                              /\ pc' = [pc EXCEPT ![p] = "ContentAggregated"]
                              /\ UNCHANGED result
    /\ UNCHANGED <<now, fs, fs_faults, empty_replies, request, dialogue,
                   timestamp, i, segment_files, removed, audio_path>>

\* Lines 54-81: content and title.
Aggregate(p) ==
    /\ pc[p] = "Start"
    /\ LET c == Aggregated[request[p]].content
           fromSources == Aggregated[request[p]].fromSources
           heuristic == Aggregated[request[p]].heuristic
       IN  /\ content' = [content EXCEPT ![p] = c]
           /\ IF ~Falsy(fromSources)
              THEN /\ document_title' = [document_title EXCEPT ![p] = fromSources]
                   /\ UNCHANGED calls
              ELSE IF heuristic # None
              THEN /\ document_title' = [document_title EXCEPT ![p] = heuristic]
                   /\ UNCHANGED calls
              ELSE \E reply \in TitleReplies :
                      LET t == TitleFromChat(reply)
                      IN  /\ document_title' =
                                [document_title EXCEPT
                                    ![p] = IF Falsy(t) THEN Topic(p) ELSE t]
                          /\ Log(p, CallRec("chat_title", reply.text, ~reply.raises))
    /\ pc' = [pc EXCEPT ![p] = "ContentAggregated"]
    /\ UNCHANGED <<now, fs, fs_faults, empty_replies, request, dialogue,
                   timestamp, i, segment_files, removed, audio_path, result>>

\* Line 85: _generate_podcast_dialogue. The chat call (lines 193-201) is
\* outside the try of lines 204-231, so its exception reaches process.
WriteScript(p) ==
    /\ pc[p] = "ContentAggregated"
    /\ \E reply \in DialogueReplies :
          /\ Log(p, CallRec("chat_dialogue", <<>>, ~reply.raises))
          /\ IF reply.raises
             THEN /\ Raise(p, "chat")
                  /\ UNCHANGED dialogue
             ELSE /\ dialogue' = [dialogue EXCEPT
                                     ![p] = ParseReply(reply, content[p], Topic(p))]
                  /\ pc' = [pc EXCEPT ![p] = "ScriptWritten"]
                  /\ UNCHANGED result
    /\ UNCHANGED <<now, fs, fs_faults, empty_replies, request, content,
                   document_title, timestamp, i, segment_files, removed,
                   audio_path>>

\* ---------------------------------------------------------------- audio
\* line['speaker'], line['text'], line['voice_id'] raise for a line that is
\* no dict or lacks the key.
HasKeys(line, keys) ==
    /\ line.isdict
    /\ "speaker" \in keys => line.speaker # <<>>
    /\ "text" \in keys => line.text # <<>>
    /\ "voice_id" \in keys => line.voice_id # <<>>

\* What elevenlabs.generate does for one line: it raises, or returns bytes
\* (possibly none at all).
SpeechReplies(n) ==
    { [raises |-> TRUE, bytes |-> <<>>],
      [raises |-> FALSE, bytes |-> <<>>],
      [raises |-> FALSE, bytes |-> << <<"mp3", n>> >>] }

\* What ffmpeg does: it cannot be started (raises), exits non-zero having
\* written nothing or part of the output, or exits zero.
MuxReplies ==
    { [raises |-> TRUE, exit |-> 1, wrote |-> "none"],
      [raises |-> FALSE, exit |-> 1, wrote |-> "none"],
      [raises |-> FALSE, exit |-> 1, wrote |-> "part"],
      [raises |-> FALSE, exit |-> 0, wrote |-> "all"] }

RECURSIVE ConcatData(_, _)
ConcatData(f, paths) ==
    IF paths = <<>> THEN <<>>
    ELSE DataAt(f, Head(paths)) \o ConcatData(f, Tail(paths))

\* Mutant of ReturnNoAudio: the failure paths return output_path.
ReturnNoAudio_ReturnsPath(p) ==
    /\ audio_path' = [audio_path EXCEPT ![p] = OutputPathOf(Topic(p), timestamp[p])]
    /\ pc' = [pc EXCEPT ![p] = "AudioReturned"]

\* _generate_audio returns "" (lines 331, 334, 339).
ReturnNoAudio(p) ==
    /\ audio_path' = [audio_path EXCEPT ![p] = <<>>]
    /\ pc' = [pc EXCEPT ![p] = "AudioReturned"]

\* The `except Exception` of lines 335-339.
AudioExcept(p) == ReturnNoAudio(p)

\* Lines 236-259: timestamp, directories, paths.
BeginAudio(p) ==
    /\ pc[p] = "ScriptWritten"
    /\ LET ts == now
       IN  \E failUploads \in FaultChoices, failTemp \in FaultChoices :
              /\ ~(failUploads /\ failTemp)
              /\ Fault(failUploads \/ failTemp)
              /\ timestamp' = [timestamp EXCEPT ![p] = ts]
              /\ IF failUploads
                 THEN /\ Raise(p, "makedirs")
                      /\ UNCHANGED fs
                 ELSE IF failTemp
                 THEN /\ Raise(p, "makedirs")
                      /\ fs' = MakeDir(fs, UploadsDir, p)
                 ELSE /\ fs' = MakeDir(MakeDir(fs, UploadsDir, p), TempDirOf(ts), p)
                      /\ pc' = [pc EXCEPT
                                  ![p] = IF Len(dialogue[p].items) = 0
                                         THEN "SegmentsSynthesized"
                                         ELSE "Synthesizing"]
                      /\ UNCHANGED result
    /\ i' = [i EXCEPT ![p] = 0]
    /\ segment_files' = [segment_files EXCEPT ![p] = <<>>]
    /\ UNCHANGED <<now, empty_replies, request, content, document_title,
                   dialogue, removed, audio_path, calls>>

\* The position after iteration i of the loop of line 260.
AfterLine(p) ==
    /\ i' = [i EXCEPT ![p] = @ + 1]
    /\ pc' = [pc EXCEPT
                ![p] = IF i[p] + 1 = Len(dialogue[p].items)
                       THEN "SegmentsSynthesized"
                       ELSE "Synthesizing"]

\* Mutant of SkipLine: a failed line is tried again.
SkipLine_Retry(p) == UNCHANGED <<i, pc, segment_files, audio_path>>

\* The inner `except Exception` of lines 284-289: the line is skipped.
SkipLine(p) ==
    /\ AfterLine(p)
    /\ UNCHANGED <<segment_files, audio_path>>

\* Lines 260-289: one iteration of the synthesis loop.
SynthesizeLine(p) ==
    /\ pc[p] = "Synthesizing"
    /\ LET line == dialogue[p].items[i[p] + 1]
           file == SegmentFileOf(timestamp[p], i[p])
       IN  IF ~HasKeys(line, {"speaker", "text"})
           THEN \* lines 261-262, outside the inner try
                /\ AudioExcept(p)
                /\ UNCHANGED <<fs, fs_faults, empty_replies, i, segment_files, calls>>
           ELSE IF ~HasKeys(line, {"voice_id"})
           THEN \* line 265, inside the inner try
                /\ SkipLine(p)
                /\ UNCHANGED <<fs, fs_faults, empty_replies, calls>>
           ELSE \E reply \in SpeechReplies(i[p]) :
                   LET empty == ~reply.raises /\ reply.bytes = <<>>
                   IN  /\ empty => FaultsLeft
                       /\ empty_replies' = IF empty THEN empty_replies + 1
                                           ELSE empty_replies
                       /\ Log(p, CallRec("speech", <<i[p]>>, ~reply.raises))
                       /\ IF reply.raises
                          THEN /\ SkipLine(p)
                               /\ UNCHANGED <<fs, fs_faults>>
                          ELSE \E failOpen \in FaultChoices, failWrite \in FaultChoices :
                                  /\ ~(failOpen /\ failWrite)
                                  /\ (failOpen \/ failWrite) => ~empty
                                  /\ Fault(failOpen \/ failWrite)
                                  /\ IF failOpen \/ TempDirOf(timestamp[p]) \notin Paths(fs)
                                     THEN /\ SkipLine(p)
                                          /\ UNCHANGED fs
                                     ELSE IF failWrite
                                     THEN /\ SkipLine(p)
                                          /\ fs' = WriteFile(fs, file, p, <<>>)
                                     ELSE /\ AfterLine(p)
                                          /\ fs' = WriteFile(fs, file, p, reply.bytes)
                                          /\ segment_files' =
                                                [segment_files EXCEPT ![p] = Append(@, file)]
                                          /\ UNCHANGED audio_path
    /\ UNCHANGED <<now, request, content, document_title, dialogue, timestamp,
                   removed, result>>

\* Mutant of NoSegments: the emptiness check is missing.
NoSegments_Unchecked(segs) == FALSE

\* Line 292: `if segment_files:` fails.
NoSegments(segs) == segs = <<>>

\* Mutant of ManifestText: the lines are written in reverse order.
ManifestText_Reversed(segs) ==
    [k \in 1..Len(segs) |-> <<"file '", segs[Len(segs) + 1 - k], "'">>]

\* Lines 297-299: one "file '<path>'" line per segment, in list order.
ManifestText(segs) == [k \in 1..Len(segs) |-> <<"file '", segs[k], "'">>]

\* The paths ffmpeg's concat demuxer reads from such a manifest, in order.
ListedFiles(text) == [k \in 1..Len(text) |-> text[k][2]]

\* Lines 292-300 and 332-334: the manifest, or no segments at all.
WriteManifest(p) ==
    /\ pc[p] = "SegmentsSynthesized"
    /\ IF NoSegments(segment_files[p])
       THEN /\ ReturnNoAudio(p)
            /\ UNCHANGED <<fs, fs_faults>>
       ELSE \E fail \in FaultChoices :
               /\ Fault(fail)
               /\ IF fail \/ TempDirOf(timestamp[p]) \notin Paths(fs)
                  THEN /\ AudioExcept(p)
                       /\ UNCHANGED fs
                  ELSE /\ fs' = WriteFile(fs, FileListOf(timestamp[p]), p,
                                          ManifestText(segment_files[p]))
                       /\ pc' = [pc EXCEPT ![p] = "Muxing"]
                       /\ UNCHANGED audio_path
    /\ UNCHANGED <<now, empty_replies, request, content, document_title,
                   dialogue, timestamp, i, segment_files, removed, result, calls>>

\* Lines 303-315 and 327-331: ffmpeg reads the manifest and the files it
\* lists; it can only exit zero when they all exist.
RunMux(p) ==
    /\ pc[p] = "Muxing"
    /\ LET list == FileListOf(timestamp[p])
           out == OutputPathOf(Topic(p), timestamp[p])
           listed == IF list \in Paths(fs) THEN ListedFiles(DataAt(fs, list))
                     ELSE <<>>
           readable == list \in Paths(fs) /\ Range(listed) \subseteq Paths(fs)
       IN  \E reply \in MuxReplies :
              /\ reply.exit = 0 => readable
              /\ Log(p, CallRec("mux", listed, ~reply.raises /\ reply.exit = 0))
              /\ IF reply.raises
                 THEN /\ AudioExcept(p)
                      /\ UNCHANGED <<fs, removed>>
                 ELSE IF reply.exit # 0
                 THEN /\ ReturnNoAudio(p)
                      /\ fs' = IF reply.wrote = "part"
                               THEN WriteFile(fs, out, p, <<>>)
                               ELSE fs
                      /\ UNCHANGED removed
                 ELSE /\ fs' = WriteFile(fs, out, p, ConcatData(fs, listed))
                      /\ removed' = [removed EXCEPT ![p] = 0]
                      /\ pc' = [pc EXCEPT ![p] = "RemoveSegments"]
                      /\ UNCHANGED audio_path
    /\ UNCHANGED <<now, fs_faults, empty_replies, request, content,
                   document_title, dialogue, timestamp, i, segment_files, result>>

\* Lines 320-321: one os.remove of the cleanup loop.
RemoveSegment(p) ==
    /\ pc[p] = "RemoveSegments"
    /\ LET file == segment_files[p][removed[p] + 1]
       IN  \E fail \in FaultChoices :
              /\ Fault(fail)
              /\ IF fail \/ file \notin Paths(fs)
                 THEN /\ AudioExcept(p)
                      /\ UNCHANGED <<fs, removed>>
                 ELSE /\ fs' = RemovePath(fs, file)
                      /\ removed' = [removed EXCEPT ![p] = @ + 1]
                      /\ pc' = [pc EXCEPT
                                  ![p] = IF removed[p] + 1 = Len(segment_files[p])
                                         THEN "RemoveManifest"
                                         ELSE "RemoveSegments"]
                      /\ UNCHANGED audio_path
    /\ UNCHANGED <<now, empty_replies, request, content, document_title,
                   dialogue, timestamp, i, segment_files, result, calls>>

\* Line 322: os.remove(file_list_path).
RemoveManifest(p) ==
    /\ pc[p] = "RemoveManifest"
    /\ LET list == FileListOf(timestamp[p])
       IN  \E fail \in FaultChoices :
              /\ Fault(fail)
              /\ IF fail \/ list \notin Paths(fs)
                 THEN /\ AudioExcept(p)
                      /\ UNCHANGED fs
                 ELSE /\ fs' = RemovePath(fs, list)
                      /\ pc' = [pc EXCEPT ![p] = "RemoveTempDir"]
                      /\ UNCHANGED audio_path
    /\ UNCHANGED <<now, empty_replies, request, content, document_title,
                   dialogue, timestamp, i, segment_files, removed, result, calls>>

\* Lines 323-326: os.rmdir(temp_dir), which needs the directory empty, then
\* return output_path.
RemoveTempDir(p) ==
    /\ pc[p] = "RemoveTempDir"
    /\ LET dir == TempDirOf(timestamp[p])
       IN  \E fail \in FaultChoices :
              /\ Fault(fail)
              /\ IF \/ fail
                    \/ dir \notin Paths(fs)
                    \/ InsideTempDir(fs, timestamp[p]) # {}
                 THEN /\ AudioExcept(p)
                      /\ UNCHANGED fs
                 ELSE /\ fs' = RemovePath(fs, dir)
                      /\ audio_path' =
                            [audio_path EXCEPT
                                ![p] = OutputPathOf(Topic(p), timestamp[p])]
                      /\ pc' = [pc EXCEPT ![p] = "AudioReturned"]
    /\ UNCHANGED <<now, empty_replies, request, content, document_title,
                   dialogue, timestamp, i, segment_files, removed, result, calls>>

\* Lines 92-120: the result record; the duration probe runs on the success
\* path only.
Finish(p) ==
    /\ pc[p] = "AudioReturned"
    /\ IF FormatRaises(dialogue[p])
       THEN /\ Raise(p, "format")
            /\ UNCHANGED calls
       ELSE IF audio_path[p] = <<>>
       THEN /\ result' = [result EXCEPT ![p] = AudioFailure(dialogue[p])]
            /\ pc' = [pc EXCEPT ![p] = "Failed"]
            /\ UNCHANGED calls
       ELSE \E reply \in ProbeReplies :
               /\ Log(p, CallRec("probe", <<audio_path[p], reply>>,
                                 ~reply.raises /\ reply.exit = 0))
               /\ result' = [result EXCEPT
                                ![p] = Success(dialogue[p], audio_path[p],
                                               GetAudioDuration(reply))]
               /\ pc' = [pc EXCEPT ![p] = "Success"]
    /\ UNCHANGED <<now, fs, fs_faults, empty_replies, request, content,
                   document_title, dialogue, timestamp, i, segment_files,
                   removed, audio_path>>

Step(p) ==
    \/ Call(p)
    \/ Aggregate(p)
    \/ WriteScript(p)
    \/ BeginAudio(p)
    \/ SynthesizeLine(p)
    \/ WriteManifest(p)
    \/ RunMux(p)
    \/ RemoveSegment(p)
    \/ RemoveManifest(p)
    \/ RemoveTempDir(p)
    \/ Finish(p)

\* One invocation of process().
Next == Tick \/ \E p \in SeqRuns : Step(p)

Spec == Init /\ [][Next]_vars

\* One invocation whose thread keeps running: every external call returns
\* (with a value or an exception) and the interpreter goes on to the next
\* statement.
SpecFair == Spec /\ \A p \in SeqRuns : WF_vars(Step(p))

\* ------------------------------------------------------- concurrent runs
\* Two invocations of process() on two threads of one server process. Each
\* has aggregated its content and holds the script the chat service wrote
\* for it; from there on they interleave statement by statement.
ConcRequests ==
    { [sources |-> << Src(<<"x", "x", "x", "x", ".">>, <<"T">>) >>,
       context |-> Ctx(<<"a", " ", "b">>)],
      [sources |-> << Src(<<"x", "x", "x", "x", ".">>, <<"T">>) >>,
       context |-> Ctx(<<"a", "_", "b">>)] }

ConcScript ==
    Json("list",
         << Item(<<"Host">>, <<Text("Hello", <<>>, "")>>, <<HOST_VOICE_ID>>),
            Item(<<"Guest">>, <<Text("Hi", <<>>, "")>>, <<GUEST_VOICE_ID>>) >>)

InitConc ==
    /\ now = 0
    /\ fs = {}
    /\ fs_faults = 0
    /\ empty_replies = 0
    /\ pc = [p \in AllRuns |-> "ScriptWritten"]
    /\ request \in {r \in [AllRuns -> ConcRequests] :
                        r[1].context.topic = <<"a", " ", "b">>}
    /\ content = [p \in AllRuns |-> ConcatContent(request[p].sources)]
    /\ document_title = [p \in AllRuns |-> FirstSourceTitle(request[p].sources)]
    /\ dialogue = [p \in AllRuns |-> ConcScript]
    /\ timestamp = [p \in AllRuns |-> 0]
    /\ i = [p \in AllRuns |-> 0]
    /\ segment_files = [p \in AllRuns |-> <<>>]
    /\ removed = [p \in AllRuns |-> 0]
    /\ audio_path = [p \in AllRuns |-> <<>>]
    /\ result = [p \in AllRuns |-> NoResult]
    /\ calls = [p \in AllRuns |-> <<CallRec("chat_dialogue", <<>>, TRUE)>>]

\* Lines 88-120 for one invocation.
AudioStep(p) ==
    \/ BeginAudio(p)
    \/ SynthesizeLine(p)
    \/ WriteManifest(p)
    \/ RunMux(p)
    \/ RemoveSegment(p)
    \/ RemoveManifest(p)
    \/ RemoveTempDir(p)
    \/ Finish(p)

NextConc == Tick \/ \E p \in AllRuns : AudioStep(p)

SpecConc == InitConc /\ [][NextConc]_vars

\* ------------------------------------------------------ title resolution
\* The caller invokes process() with one of the title requests.
CallTitle(p) ==
    /\ pc[p] = "Idle"
    /\ \E r \in TitleRequests : request' = [request EXCEPT ![p] = r]
    /\ pc' = [pc EXCEPT ![p] = "Start"]
    /\ UNCHANGED <<now, fs, fs_faults, empty_replies, content, document_title,
                   dialogue, timestamp, i, segment_files, removed, audio_path,
                   result, calls>>

\* Lines 47-81 of one invocation: up to the resolved title.
NextTitle == \E p \in SeqRuns : CallTitle(p) \/ Aggregate(p)

SpecTitle == Init /\ [][NextTitle]_vars

\* ---------------------------------------------------------------- claims
Terminal(p) == pc[p] \in {"Success", "Failed"}

CallsOf(p, op) == {k \in 1..Len(calls[p]) : calls[p][k].op = op}

\* The lines (zero-based positions) whose speech call returned / raised.
OkLines(p) == {calls[p][k].arg[1] : k \in {j \in CallsOf(p, "speech") : calls[p][j].ok}}

FailedLines(p) == {calls[p][k].arg[1] : k \in {j \in CallsOf(p, "speech") : ~calls[p][j].ok}}

\* The script writer returned a script to process.
ScriptProduced(p) == \E k \in CallsOf(p, "chat_dialogue") : calls[p][k].ok

\* The synthesis loop ran over every line of the script.
LoopDone(p) ==
    /\ pc[p] \notin {"Idle", "Start", "ContentAggregated", "ScriptWritten", "Synthesizing"}
    /\ ScriptProduced(p)
    /\ i[p] = Len(dialogue[p].items)

\* The number a segment file's name carries.
SegmentNumber(path) == 100 * path[5][1] + 10 * path[5][2] + path[5][3]

\* C1: whenever _generate_audio has returned, on whatever path, the temporary
\* directory it created and everything in it (segment files, manifest) are
\* gone.
C1_TempFilesRemovedOnEveryExit ==
    \A p \in AllRuns :
        pc[p] = "AudioReturned" =>
            /\ TempDirOf(timestamp[p]) \notin Paths(fs)
            /\ InsideTempDir(fs, timestamp[p]) = {}

\* C2: process never raises: at every position after content aggregation
\* (which has no failing operation) it can take its next step, and when it
\* ends it has returned a record that carries audio_output (Success) or
\* error (Failure), one of the two.
C2_ProcessNeverRaises ==
    \A p \in AllRuns :
        /\ Terminal(p) => IsSuccess(result[p]) # IsFailure(result[p])
        /\ pc[p] = "Success" => IsSuccess(result[p])
        /\ pc[p] = "Failed" => IsFailure(result[p])
        /\ ~Terminal(p) => result[p] = NoResult
        /\ pc[p] = "ContentAggregated" => ENABLED WriteScript(p)
        /\ pc[p] = "ScriptWritten" => ENABLED BeginAudio(p)
        /\ pc[p] = "Synthesizing" => ENABLED SynthesizeLine(p)
        /\ pc[p] = "SegmentsSynthesized" => ENABLED WriteManifest(p)
        /\ pc[p] = "Muxing" => ENABLED RunMux(p)
        /\ pc[p] = "RemoveSegments" => ENABLED RemoveSegment(p)
        /\ pc[p] = "RemoveManifest" => ENABLED RemoveManifest(p)
        /\ pc[p] = "RemoveTempDir" => ENABLED RemoveTempDir(p)
        /\ pc[p] = "AudioReturned" => ENABLED Finish(p)
        /\ pc[p] \in {"Idle", "Start", "ContentAggregated", "ScriptWritten",
                      "Synthesizing", "SegmentsSynthesized", "Muxing",
                      "RemoveSegments", "RemoveManifest", "RemoveTempDir",
                      "AudioReturned", "Success", "Failed"}

\* C2 witness: a filesystem operation failed, the exception reached the
\* except clause of process, and a Failure record was returned.
C2_Witness ==
    \E p \in AllRuns :
        /\ pc[p] = "Failed"
        /\ fs_faults > 0
        /\ result[p].sources_found = Placeholder

\* C3: once the script writer has been called, a script of at least one line
\* exists and the run has not failed in the script writer; when the chat call
\* raised, the script is the fallback script.
C3_ScriptWriterNeverFails ==
    \A p \in AllRuns :
        CallsOf(p, "chat_dialogue") # {} =>
            /\ dialogue[p].kind = "list"
            /\ Len(dialogue[p].items) >= 1
            /\ ~ScriptProduced(p) =>
                  dialogue[p] = FallbackDialogue(content[p], Topic(p))

\* C4: the script the script writer returns is the fallback script or a
\* parsed array all of whose elements hold speaker, text and voice_id; a
\* reply that is malformed, not an array, or lacks a key never comes through.
C4_BadReplyGivesFallback ==
    \A p \in AllRuns :
        ScriptProduced(p) =>
            \/ dialogue[p] = FallbackDialogue(content[p], Topic(p))
            \/ /\ dialogue[p].kind = "list"
               /\ \A k \in 1..Len(dialogue[p].items) :
                     HasKeys(dialogue[p].items[k], {"speaker", "text", "voice_id"})

\* C5: a Failure returned after a script was produced carries the
\* speaker-labeled transcript of that script (here: of a script whose lines
\* all have a speaker and a text, so that the transcript exists).
C5_FailureCarriesTranscript ==
    \A p \in AllRuns :
        (pc[p] = "Failed" /\ ScriptProduced(p) /\ ~FormatRaises(dialogue[p])) =>
            /\ result[p].sources_found.header = "# Podcast Transcript"
            /\ Len(result[p].sources_found.blocks) = Len(dialogue[p].items)

\* Every line of the script had its speech call, and every call raised.
AllLinesFailed(p) ==
    /\ ScriptProduced(p)
    /\ Len(dialogue[p].items) >= 1
    /\ FailedLines(p) = 0..(Len(dialogue[p].items) - 1)

\* C6: when the speech service fails for every line, no audio path is
\* returned, the run does not succeed, the Failure it ends in carries every
\* dialogue line as a speaker-labeled block, in order, and no output file
\* exists.
C6_AllSpeechFailed ==
    \A p \in AllRuns :
        AllLinesFailed(p) =>
            /\ audio_path[p] = <<>>
            /\ pc[p] # "Success"
            /\ \A e \in fs : Len(e.path) # 6
            /\ pc[p] = "Failed" =>
                  /\ IsFailure(result[p]) /\ ~IsSuccess(result[p])
                  /\ result[p].sources_found.header = "# Podcast Transcript"
                  /\ Len(result[p].sources_found.blocks) = Len(dialogue[p].items)
                  /\ \A k \in 1..Len(dialogue[p].items) :
                        result[p].sources_found.blocks[k] =
                            <<dialogue[p].items[k].speaker[1],
                              dialogue[p].items[k].text[1]>>

\* C6 witness: the six lines of the fallback script all failed and the run
\* has ended in Failure.
C6_Witness ==
    \E p \in AllRuns :
        /\ AllLinesFailed(p)
        /\ Len(dialogue[p].items) = 6
        /\ pc[p] = "Failed"

\* C7: the segment files are those of the lines whose synthesis succeeded,
\* each named by its line's position, in strictly increasing order; when the
\* filesystem did not fail, they are exactly the lines whose speech call
\* returned, one failing line of a fully attempted script leaves
\* scriptLength - 1 segments, and a run that fails although some line
\* succeeded fails because of the muxing utility.
C7_SegmentsAreSucceededLines ==
    \A p \in AllRuns :
        LET segs == segment_files[p]
        IN  /\ \A k \in 1..Len(segs) :
                  /\ SegmentNumber(segs[k]) \in OkLines(p)
                  /\ segs[k] = <<"uploads", "temp_segments_", timestamp[p], "segment_",
                                 segs[k][5]>>
            /\ \A j, k \in 1..Len(segs) :
                  j < k => SegmentNumber(segs[j]) < SegmentNumber(segs[k])
            /\ fs_faults = 0 =>
                  {SegmentNumber(segs[k]) : k \in 1..Len(segs)} = OkLines(p)
            /\ (/\ fs_faults = 0
                /\ LoopDone(p)
                /\ Cardinality(CallsOf(p, "speech")) = Len(dialogue[p].items)
                /\ Cardinality(FailedLines(p)) = 1)
                  => Len(segs) = Len(dialogue[p].items) - 1
            /\ (/\ fs_faults = 0
                /\ LoopDone(p)
                /\ OkLines(p) # {}
                /\ pc[p] = "Failed")
                  => \E k \in CallsOf(p, "mux") : ~calls[p][k].ok

\* C7 witness: of the six lines of the fallback script only the third
\* failed, five segments were assembled and the run succeeded.
C7_Witness ==
    \E p \in AllRuns :
        /\ pc[p] = "Success"
        /\ fs_faults = 0
        /\ Len(dialogue[p].items) = 6
        /\ FailedLines(p) = {2}
        /\ Len(segment_files[p]) = 5

\* C8: what the muxing utility reads from the manifest is the list of
\* segment files, each once, in the order the synthesis loop produced them.
C8_ManifestInSegmentOrder ==
    \A p \in AllRuns :
        \A k \in CallsOf(p, "mux") :
            /\ calls[p][k].arg = segment_files[p]
            /\ \A a, b \in 1..Len(calls[p][k].arg) :
                  a < b => SegmentNumber(calls[p][k].arg[a]) <
                           SegmentNumber(calls[p][k].arg[b])

\* C8 witness: the muxing utility was handed a manifest of several segments
\* with a gap in the numbering.
C8_Witness ==
    \E p \in AllRuns :
        \E k \in CallsOf(p, "mux") :
            /\ Len(calls[p][k].arg) >= 3
            /\ \E a \in 1..(Len(calls[p][k].arg) - 1) :
                  SegmentNumber(calls[p][k].arg[a + 1]) >
                  SegmentNumber(calls[p][k].arg[a]) + 1

\* C9: as long as no speech call has returned, there is no segment, the
\* muxing utility and the duration probe have not been invoked, and the run
\* cannot have succeeded; once it ends, it ends in Failure.
C9_NoSegmentsNoMux ==
    \A p \in AllRuns :
        OkLines(p) = {} =>
            /\ segment_files[p] = <<>>
            /\ CallsOf(p, "mux") = {}
            /\ CallsOf(p, "probe") = {}
            /\ pc[p] \notin {"Muxing", "RemoveSegments", "RemoveManifest",
                             "RemoveTempDir", "Success"}
            /\ Terminal(p) => IsFailure(result[p])

\* C9 witness: every line's speech call was made and raised, and the run
\* ended in "Failed to generate audio".
C9_Witness ==
    \E p \in AllRuns :
        /\ pc[p] = "Failed"
        /\ OkLines(p) = {}
        /\ Cardinality(FailedLines(p)) = Len(dialogue[p].items)
        /\ Len(dialogue[p].items) >= 2
        /\ result[p].error = "Failed to generate audio"

\* C10: once the muxing utility has failed, no audio path is returned, the
\* run does not succeed, and the Failure it ends in has no audio_output.
C10_MuxFailureIsFailure ==
    \A p \in AllRuns :
        (\E k \in CallsOf(p, "mux") : ~calls[p][k].ok) =>
            /\ audio_path[p] = <<>>
            /\ pc[p] # "Success"
            /\ Terminal(p) => (IsFailure(result[p]) /\ ~IsSuccess(result[p]))

\* C10 witness: the muxing utility exited non-zero leaving part of the
\* output file, and the run ended in Failure.
C10_Witness ==
    \E p \in AllRuns :
        /\ pc[p] = "Failed"
        /\ \E k \in CallsOf(p, "mux") : ~calls[p][k].ok
        /\ OutputPathOf(Topic(p), timestamp[p]) \in Paths(fs)

\* The duration probe did not yield a duration: it could not be started, it
\* exited non-zero, or what it printed is no float.
ProbeFailed(reply) == reply.raises \/ reply.exit # 0 \/ ~reply.isfloat

\* C11: once the duration probe has been invoked, the run has ended in
\* Success with the path _generate_audio returned; a probe that failed gives
\* duration_seconds = 0.0 and never a Failure, and a probe that worked gives
\* the duration it printed.
C11_ProbeFailureIsZeroDuration ==
    \A p \in AllRuns :
        \A k \in CallsOf(p, "probe") :
            LET reply == calls[p][k].arg[2]
            IN  /\ pc[p] = "Success"
                /\ IsSuccess(result[p]) /\ ~IsFailure(result[p])
                /\ result[p].audio_output = audio_path[p]
                /\ \E m \in CallsOf(p, "mux") : calls[p][m].ok
                /\ ProbeFailed(reply) => result[p].metadata.duration_seconds = 0
                /\ ~ProbeFailed(reply) =>
                      result[p].metadata.duration_seconds = reply.value

\* C11 witness: ffprobe exited zero and printed something that is no float,
\* and the run ended in Success with duration 0.
C11_Witness ==
    \E p \in AllRuns :
        \E k \in CallsOf(p, "probe") :
            /\ ~calls[p][k].arg[2].raises
            /\ calls[p][k].arg[2].exit = 0
            /\ ~calls[p][k].arg[2].isfloat
            /\ pc[p] = "Success"
            /\ result[p].metadata.duration_seconds = 0

\* The state of the pipeline's state machine an invocation is in:
\* 1 Start, 2 ContentAggregated, 3 ScriptWritten, 4 SegmentsSynthesized,
\* 5 Assembled(Success), 6 Failed, and 0 before process is called.
\* _generate_audio having returned "" is Failed: process only has the
\* Failure record left to build.
Stage(label, path) ==
    CASE label = "Idle" -> 0
      [] label = "Start" -> 1
      [] label = "ContentAggregated" -> 2
      [] label \in {"ScriptWritten", "Synthesizing"} -> 3
      [] label \in {"SegmentsSynthesized", "Muxing", "RemoveSegments",
                    "RemoveManifest", "RemoveTempDir"} -> 4
      [] label = "AudioReturned" -> IF path = <<>> THEN 6 ELSE 4
      [] label = "Success" -> 5
      [] label = "Failed" -> 6

\* One step of the state machine, for one invocation.
StageStep(p) ==
    LET old == Stage(pc[p], audio_path[p])
        new == Stage(pc'[p], audio_path'[p])
    IN  \/ new = old
        \/ new = old + 1 /\ new <= 5
        \/ new = 6 /\ old \in 2..4

\* C12: an invocation goes through Start, ContentAggregated, ScriptWritten,
\* SegmentsSynthesized, Success one state at a time, never backwards; it
\* enters Failed only from ContentAggregated or later, never from Start;
\* Success and Failed are left no more; and a started invocation whose
\* thread keeps running ends in one of the two.
C12_StateMachine ==
    /\ [][\A p \in AllRuns :
             /\ StageStep(p)
             /\ Terminal(p) => pc'[p] = pc[p] /\ result'[p] = result[p]]_vars
    /\ \A p \in SeqRuns : (pc[p] = "Start") ~> Terminal(p)

\* C12 witness: an invocation that made the title call, wrote a script,
\* synthesized it, assembled it and ended in Success.
C12_Witness ==
    \E p \in AllRuns :
        /\ pc[p] = "Success"
        /\ CallsOf(p, "chat_title") # {}
        /\ CallsOf(p, "speech") # {}
        /\ CallsOf(p, "mux") # {}
        /\ CallsOf(p, "probe") # {}

\* _generate_audio of an invocation has made its directories and has not
\* returned yet.
InAudio(p) ==
    pc[p] \in {"Synthesizing", "SegmentsSynthesized", "Muxing", "RemoveSegments",
               "RemoveManifest", "RemoveTempDir"}

\* The segment files an invocation has written and not removed yet.
LiveSegments(p) ==
    IF pc[p] = "RemoveSegments"
    THEN {segment_files[p][k] : k \in (removed[p] + 1)..Len(segment_files[p])}
    ELSE IF pc[p] \in {"Synthesizing", "SegmentsSynthesized", "Muxing"}
    THEN Range(segment_files[p])
    ELSE {}

\* C13: while an invocation is inside _generate_audio, its temporary
\* directory is on disk, every segment file it wrote and has not removed is
\* on disk as it wrote it, and the manifest it hands to the muxing utility
\* is the one it wrote: no other invocation overwrote or deleted any of them.
C13_TempFilesScopedToInvocation ==
    \A p \in AllRuns :
        InAudio(p) =>
            /\ fs_faults = 0 => TempDirOf(timestamp[p]) \in Paths(fs)
            /\ fs_faults = 0 =>
                  \A f \in LiveSegments(p) :
                      \E e \in fs : e.path = f /\ e.by = p
            /\ (pc[p] = "Muxing") =>
                  \E e \in fs :
                      /\ e.path = FileListOf(timestamp[p])
                      /\ e.by = p
                      /\ e.data = ManifestText(segment_files[p])

\* The output path an invocation has computed (line 253).
Targets(p) ==
    IF \/ InAudio(p)
       \/ pc[p] \in {"AudioReturned", "Success"}
       \/ pc[p] = "Failed" /\ result[p].error = "Failed to generate audio"
    THEN {OutputPathOf(Topic(p), timestamp[p])}
    ELSE {}

\* C14: two invocations that have computed the same output path were given
\* the same topic and took their timestamps in the same second.
C14_OutputPathsDiffer ==
    \A p, q \in AllRuns :
        (p # q /\ Targets(p) # {} /\ Targets(p) = Targets(q)) =>
            /\ Topic(p) = Topic(q)
            /\ timestamp[p] = timestamp[q]

\* Content aggregation of an invocation is done.
AggregationDone(p) == pc[p] \notin {"Idle", "Start"}

\* sources[1].content + ... + sources[n].content, character by character.
Concatenation(srcs) ==
    LET total == IF Len(srcs) = 1 THEN Len(srcs[1].content)
                 ELSE Len(srcs[1].content) + Len(srcs[2].content)
    IN  [k \in 1..total |->
            IF k <= Len(srcs[1].content) THEN srcs[1].content[k]
            ELSE srcs[2].content[k - Len(srcs[1].content)]]

\* C15: once content aggregation is done, the content is the concatenation
\* of the source contents in input order and the title is a text that is
\* not empty.
C15_ContentAndTitle ==
    \A p \in AllRuns :
        AggregationDone(p) =>
            /\ content[p] = Concatenation(request[p].sources)
            /\ document_title[p] # None
            /\ document_title[p] # <<>>

\* The sources that carry a non-empty title, by position.
Titled(srcs) ==
    {k \in 1..Len(srcs) : srcs[k].title # None /\ Len(srcs[k].title) > 0}

\* The positions, among the first five lines of a content, of the lines
\* whose trimmed length is strictly between 3 and 100 and which do not end
\* in . : ; , ? or !
TitleLines(c) ==
    LET lines == SplitLines(c)
    IN  {k \in 1..Len(lines) :
            /\ k <= 5
            /\ Len(Strip(lines[k])) \in 4..99
            /\ \A ch \in {".", ":", ";", ",", "?", "!"} :
                  Strip(lines[k])[Len(Strip(lines[k]))] # ch}

Least(S) == CHOOSE k \in S : \A j \in S : k <= j

\* C16: the title is that of the first source carrying a non-empty title;
\* with no such source, the first of the first five content lines that
\* qualifies, trimmed; with no such line, the trimmed reply of the title
\* chat call; and with no reply, or a blank one, the topic. The chat call is
\* made once, and only when sources and lines both miss, and its failure
\* leaves the invocation running with the topic as title.
C16_TitleChain ==
    \A p \in AllRuns :
        AggregationDone(p) =>
            LET srcs == request[p].sources
                titled == Titled(srcs)
                good == TitleLines(content[p])
                chat == CallsOf(p, "chat_title")
                title == document_title[p]
            IN  /\ titled # {} =>
                      title = srcs[Least(titled)].title /\ chat = {}
                /\ (titled = {} /\ good # {}) =>
                      /\ title = Strip(SplitLines(content[p])[Least(good)])
                      /\ chat = {}
                /\ (titled = {} /\ good = {}) =>
                      /\ Cardinality(chat) = 1
                      /\ \A k \in chat :
                            LET reply == Strip(calls[p][k].arg)
                            IN  title = IF calls[p][k].ok /\ reply # <<>>
                                        THEN reply
                                        ELSE Topic(p)
                /\ pc[p] = "ContentAggregated" => result[p] = NoResult

\* C16 witness: no source has a title, the first line is too short and the
\* second, trimmed, became the title without a chat call.
C16_Witness ==
    \E p \in AllRuns :
        /\ AggregationDone(p)
        /\ Titled(request[p].sources) = {}
        /\ TitleLines(content[p]) # {}
        /\ 1 \notin TitleLines(content[p])
        /\ 2 \in TitleLines(content[p])
        /\ document_title[p] = Chars4
        /\ calls[p] = <<>>

\* C17: a line whose speech call returned zero bytes is skipped like a line
\* whose call raised: no segment of the segment list, and so no entry of the
\* manifest, is a file of zero bytes, and the segments number no more than
\* the calls that returned some audio.
C17_EmptyReplyIsSkipped ==
    \A p \in SeqRuns :
        /\ \A f \in Range(segment_files[p]) :
              f \in Paths(fs) => DataAt(fs, f) # <<>>
        /\ Len(segment_files[p]) + empty_replies <= Cardinality(OkLines(p))

\* The lines (zero-based) for which the loop reaches elevenlabs.generate:
\* those holding speaker, text and voice_id.
Speakable(p) ==
    {n \in 0..(Len(dialogue[p].items) - 1) :
        HasKeys(dialogue[p].items[n + 1], {"speaker", "text", "voice_id"})}

\* C18: the speech calls of an invocation are made in script order, each
\* line at most once, each for a line the loop has already left behind when
\* the next statement runs; and when the muxing utility is invoked, the loop
\* has gone over every line, every speech call precedes it, and every line
\* that could be spoken has had its one call.
C18_SpeechCallsInOrder ==
    \A p \in AllRuns :
        /\ \A j, k \in CallsOf(p, "speech") :
              j < k => calls[p][j].arg[1] < calls[p][k].arg[1]
        /\ \A k \in CallsOf(p, "speech") :
              /\ calls[p][k].arg[1] < i[p]
              /\ calls[p][k].arg[1] \in Speakable(p)
        /\ \A m \in CallsOf(p, "mux") :
              /\ i[p] = Len(dialogue[p].items)
              /\ \A k \in CallsOf(p, "speech") : k < m
              /\ {calls[p][k].arg[1] : k \in CallsOf(p, "speech")} = Speakable(p)
              /\ Cardinality(CallsOf(p, "mux")) = 1

\* C18 witness: the call for the first line raised, the call for the second
\* returned, and the muxing utility was invoked after both.
C18_Witness ==
    \E p \in AllRuns :
        /\ CallsOf(p, "mux") # {}
        /\ 0 \in FailedLines(p)
        /\ 1 \in OkLines(p)
        /\ Cardinality(CallsOf(p, "speech")) >= 2

\* C19: a Success of a run in which some line's speech call failed reports
\* as its segment count the number of segments synthesized and assembled,
\* which is smaller than the script's length.
C19_SegmentCountShowsSkippedLines ==
    \A p \in AllRuns :
        (pc[p] = "Success" /\ FailedLines(p) # {}) =>
            /\ result[p].dialogue_segments = Len(segment_files[p])
            /\ result[p].dialogue_segments < Len(dialogue[p].items)

\* C20: a returned record holds audio_output or error, never both and never
\* neither; audio_output is there only when a segment was synthesized and
\* the muxing utility exited zero; the duration probe is invoked at most
\* once, after a muxing run that exited zero, and never in a run that ends
\* in Failure.
C20_OneOfAudioOutputAndError ==
    \A p \in AllRuns :
        /\ result[p] # NoResult =>
              /\ Terminal(p)
              /\ IsSuccess(result[p]) # IsFailure(result[p])
        /\ IsSuccess(result[p]) =>
              /\ segment_files[p] # <<>>
              /\ OkLines(p) # {}
              /\ \E m \in CallsOf(p, "mux") : calls[p][m].ok
              /\ result[p].audio_output = OutputPathOf(Topic(p), timestamp[p])
        /\ Cardinality(CallsOf(p, "probe")) <= 1
        /\ \A k \in CallsOf(p, "probe") :
              /\ \E m \in CallsOf(p, "mux") : m < k /\ calls[p][m].ok
              /\ calls[p][k].arg[1] = OutputPathOf(Topic(p), timestamp[p])
              /\ IsSuccess(result[p])
        /\ IsFailure(result[p]) => CallsOf(p, "probe") = {}

\* C20 witness: the muxing utility exited zero, the cleanup failed, and the
\* run ended in a Failure without audio_output and without a probe.
C20_Witness ==
    \E p \in AllRuns :
        /\ pc[p] = "Failed"
        /\ \E m \in CallsOf(p, "mux") : calls[p][m].ok
        /\ IsFailure(result[p]) /\ ~IsSuccess(result[p])
        /\ CallsOf(p, "probe") = {}

====
